---- MODULE Spec2Model ----
(***************************************************************************)
(* Consumer-side delivery pipeline of the RabbitMQ -> Salesforce relay:    *)
(* RabbitMQConsumer.processMessage / handleMessage / sendToDLQ, the        *)
(* in-memory idempotency ledger (utils/idempotency.ts) and the producer's  *)
(* sendMessage.  The broker is modelled by the primary queue, the DLQ and  *)
(* the single un-acked delivery that prefetch(1) allows.                   *)
(***************************************************************************)
EXTENDS Integers, Sequences, FiniteSets, TLC

\* ------------------------------------------------------------------ bounds
\* number of bodies the environment publishes to the primary queue
MaxProduced == 2

\* operations of the CRM adapter that may be under way at once
MaxCallers == 3

\* items the order form is given at most
MaxItems == 2

\* largest quantity typed into an item of the order form
MaxQuantity == 2

\* largest price typed into an item of the order form
MaxPrice == 2

\* ------------------------------------------------------- program constants
\* config.rabbitmq.maxRetries
maxRetries == 3

\* config.rabbitmq.queue / config.rabbitmq.dlq
PrimaryQueue == "orders_queue"
DLQ == "orders_dlq"

\* message ids used by the producers (uuidv4 values in the API); the same id
\* can reach the queue more than once (a producer that repeats a publish, a
\* delivery the broker requeued after another consumer died)
MessageIds == {"m1", "m2"}

\* the closed EventType enum that handleMessage switches on
KnownEvents == {"CREATE_ORDER", "UPDATE_ORDER", "CREATE_CUSTOMER", "UPDATE_CUSTOMER"}

\* an event value outside the enum (reaches the switch default)
UnknownEvent == "DELETE_ORDER"

Events == KnownEvents \cup {UnknownEvent}

\* MessagePayload: the set of its optional keys (order, customer) that are present
Payloads == {{"order"}, {"customer"}}

\* error.message of a failed CRM adapter call
CrmErrors == {"Customer not found", "Network Error"}

\* outcome of an awaited CRM adapter call: resolved, or rejected with an error
Resolved == "resolved"

\* property order of a message object as the code builds it (insertion order)
FieldOrder == <<"messageId", "event", "payload", "timestamp", "retryCount",
                "dlqReason", "dlqTimestamp">>

VARIABLES
    queue,              \* primary queue: bodies ready for delivery, head first
    dlq,                \* dead-letter queue: bodies published to it
    unacked,            \* deliveries handed to the consumer and not yet settled
    pc,                 \* position of the consumer callback: "idle" | "awaitCRM"
    msg,                \* body of the delivery the callback handles / handled last
    fx,                 \* effects of that callback invocation, in program order
    processedMessages,  \* the idempotency ledger (Map messageId -> ProcessedMessage)
    attempts,           \* per messageId: number of handleMessage invocations
    marks,              \* per messageId: markMessageProcessed calls of the pipeline
    copies,             \* per messageId: bodies the producers published with it
    produced,           \* number of bodies published from outside the consumer
    proc,               \* position of the consumer process (startConsumer, signals)
    token,              \* SalesforceService.token: "null" | "set"
    channelSetup,       \* what connect() did on the channel so far
    caller,             \* per caller of the CRM adapter: position in its operation
    ret,                \* last call made from outside the pipeline (idempotency
                        \* module, JSON codec, HTTP route) and what it returned
    orderForm           \* the order form of the front end (React state)

vars == <<queue, dlq, unacked, pc, msg, fx, processedMessages, attempts, marks,
          copies, produced, proc, token, channelSetup, caller, ret, orderForm>>

\* the state outside the delivery pipeline
surroundings == <<proc, token, channelSetup, caller, ret, orderForm>>

\* ------------------------------------------------------------ JSON codec
\* A body is the text on the wire.  json says what JSON.parse makes of it:
\* "invalid" (throws), "null" (the value null) or "object"; kv lists the
\* members of an object in the order they were written.
Garbage == [json |-> "invalid", kv |-> <<>>]
NullBody == [json |-> "null", kv |-> <<>>]
NoBody == [json |-> "none", kv |-> <<>>]

\* fault: retryCount is not written
JSONstringify_NoRetryCount(obj) ==
    LET present == SelectSeq(SubSeq(FieldOrder, 1, 4), LAMBDA k : k \in DOMAIN obj)
    IN  [json |-> "object",
         kv   |-> [i \in 1..Len(present) |-> <<present[i], obj[present[i]]>>]]

\* JSON.stringify of an object: own properties in insertion order; a
\* property that was never set is not written.
JSONstringify(obj) ==
    LET present == SelectSeq(FieldOrder, LAMBDA k : k \in DOMAIN obj)
    IN  [json |-> "object",
         kv   |-> [i \in 1..Len(present) |-> <<present[i], obj[present[i]]>>]]

\* JSON.parse of an object text: one property per member, a repeated key
\* keeps its last value.
JSONparse(body) ==
    LET kv == body.kv
        keys == {kv[i][1] : i \in DOMAIN kv}
        last(k) == CHOOSE i \in DOMAIN kv :
                      /\ kv[i][1] = k
                      /\ \A j \in DOMAIN kv : kv[j][1] = k => j <= i
    IN  [k \in keys |-> kv[last(k)][2]]

\* obj.key = value
SetField(obj, key, value) ==
    [k \in DOMAIN obj \cup {key} |-> IF k = key THEN value ELSE obj[k]]

\* (message.retryCount || 0)
RetryCountOr0(message) ==
    IF "retryCount" \in DOMAIN message /\ message["retryCount"] # 0
    THEN message["retryCount"] ELSE 0

\* ------------------------------------------------------------- the ledger
\* fault: the ledger is never consulted
isMessageProcessed_Never(messageId) == FALSE

\* fault: only failed records count as processed
isMessageProcessed_FailedOnly(messageId) ==
    /\ messageId \in DOMAIN processedMessages
    /\ processedMessages[messageId].status = "failed"

\* fault: only success records count as processed
isMessageProcessed_SuccessOnly(messageId) ==
    /\ messageId \in DOMAIN processedMessages
    /\ processedMessages[messageId].status = "success"

\* processedMessages.has(messageId)
isMessageProcessed(messageId) == messageId \in DOMAIN processedMessages

\* fault: the error detail is not stored
ProcessedMessage_NoError(messageId, status, error) ==
    [messageId |-> messageId, processedAt |-> "now", status |-> status]

\* the record markMessageProcessed builds; error is <<>> when the argument
\* is left out and <<text>> when it is passed
ProcessedMessage(messageId, status, error) ==
    IF error = <<>>
    THEN [messageId |-> messageId, processedAt |-> "now", status |-> status]
    ELSE [messageId |-> messageId, processedAt |-> "now", status |-> status,
          error |-> error[1]]

\* processedMessages.set(messageId, processed): the map after the call
markMessageProcessed(map, messageId, status, error) ==
    [k \in DOMAIN map \cup {messageId} |->
        IF k = messageId THEN ProcessedMessage(messageId, status, error) ELSE map[k]]

\* processedMessages.get(messageId): <<record>>, or <<>> for undefined
getMessageStatus(messageId) ==
    IF messageId \in DOMAIN processedMessages
    THEN <<processedMessages[messageId]>>
    ELSE <<>>

\* fault: clear leaves the records in place
clearProcessedMessages_KeepsRecords == processedMessages

\* processedMessages.clear(): the map after the call
clearProcessedMessages == [k \in {} |-> 0]

\* --------------------------------------------------------------- effects
AckFx == [op |-> "ack"]
NackFx(requeue) == [op |-> "nack", requeue |-> requeue]
ThrowFx == [op |-> "throw"]
CrmFx(call) == [op |-> call]
MarkFx(messageId, status, error) ==
    [op |-> "mark", messageId |-> messageId, status |-> status, error |-> error]
PublishFx(q, body) == [op |-> "publish", queue |-> q, body |-> body]
\* the catch block was entered with this error.message
FailedFx(errorMessage) == [op |-> "failed", error |-> errorMessage]

\* ------------------------------------------------------- the consumer code
\* fault: the increment is forgotten
NextRetryCount_NoIncrement(message) == RetryCountOr0(message)

\* const retryCount = (message.retryCount || 0) + 1
NextRetryCount(message) == RetryCountOr0(message) + 1

\* fault: off by one, one republish too many
ShouldRetry_Inclusive(retryCount) == retryCount <= maxRetries

\* if (retryCount < config.rabbitmq.maxRetries)
ShouldRetry(retryCount) == retryCount < maxRetries

\* `Unknown event type: ${event}`
UnknownEventMessage(event) == "Unknown event type: " \o event

\* fault: the switch has no default, an unknown event is skipped
handleMessage_NoDefault(message) ==
    LET event == message["event"]
        payload == message["payload"]
    IN  CASE event \in {"CREATE_ORDER", "UPDATE_ORDER"} /\ "order" \in payload ->
                [kind |-> "await", call |-> "createOrUpdateOrder"]
          [] event \in {"CREATE_CUSTOMER", "UPDATE_CUSTOMER"}
                /\ "customer" \in payload ->
                [kind |-> "await", call |-> "createOrUpdateCustomer"]
          [] OTHER -> [kind |-> "return"]

\* handleMessage up to its first suspension: it awaits one CRM adapter call,
\* returns without calling the adapter, or throws on an event outside the enum
handleMessage(message) ==
    LET event == message["event"]
        payload == message["payload"]
    IN  CASE event \in {"CREATE_ORDER", "UPDATE_ORDER"} ->
                IF "order" \in payload
                THEN [kind |-> "await", call |-> "createOrUpdateOrder"]
                ELSE [kind |-> "return"]
          [] event \in {"CREATE_CUSTOMER", "UPDATE_CUSTOMER"} ->
                IF "customer" \in payload
                THEN [kind |-> "await", call |-> "createOrUpdateCustomer"]
                ELSE [kind |-> "return"]
          [] OTHER -> [kind |-> "throw", error |-> UnknownEventMessage(event)]

\* fault: the envelope is published without the reason
sendToDLQ_NoReason(message, error) ==
    JSONstringify(SetField(message, "dlqTimestamp", "now"))

\* sendToDLQ: the body it publishes, { ...message, dlqReason, dlqTimestamp }
sendToDLQ(message, error) ==
    JSONstringify(SetField(SetField(message, "dlqReason", error),
                           "dlqTimestamp", "now"))

\* fault: the ledger write is forgotten
afterHandleMessage_AckOnly(message) == <<AckFx>>

\* the statements of the try block after handleMessage returned
afterHandleMessage(message) ==
    <<MarkFx(message["messageId"], "success", <<>>), AckFx>>

\* fault: the republish is not skipped when the retries are exhausted
catchBlock_NoElse(message, errorMessage) ==
    LET messageId == message["messageId"]
        retryCount == NextRetryCount(message)
        retryBuffer == JSONstringify(SetField(message, "retryCount", retryCount))
    IN  IF ShouldRetry(retryCount)
        THEN <<FailedFx(errorMessage), PublishFx(PrimaryQueue, retryBuffer), AckFx>>
        ELSE <<FailedFx(errorMessage), PublishFx(PrimaryQueue, retryBuffer),
               PublishFx(DLQ, sendToDLQ(message, errorMessage)), AckFx,
               MarkFx(messageId, "failed", <<errorMessage>>)>>

\* fault: the republished copy is encoded before retryCount is stored in it
catchBlock_StaleCopy(message, errorMessage) ==
    LET messageId == message["messageId"]
        retryCount == NextRetryCount(message)
    IN  IF ShouldRetry(retryCount)
        THEN <<FailedFx(errorMessage),
               PublishFx(PrimaryQueue, JSONstringify(message)), AckFx>>
        ELSE <<FailedFx(errorMessage),
               PublishFx(DLQ, sendToDLQ(message, errorMessage)), AckFx,
               MarkFx(messageId, "failed", <<errorMessage>>)>>

\* fault: the delivery is acknowledged before the publish, in both branches
catchBlock_AckFirst(message, errorMessage) ==
    LET messageId == message["messageId"]
        retryCount == NextRetryCount(message)
    IN  IF ShouldRetry(retryCount)
        THEN LET retryBuffer ==
                     JSONstringify(SetField(message, "retryCount", retryCount))
             IN  <<FailedFx(errorMessage), AckFx,
                   PublishFx(PrimaryQueue, retryBuffer)>>
        ELSE <<FailedFx(errorMessage), AckFx,
               PublishFx(DLQ, sendToDLQ(message, errorMessage)),
               MarkFx(messageId, "failed", <<errorMessage>>)>>

\* the catch block of processMessage
catchBlock(message, errorMessage) ==
    LET messageId == message["messageId"]
        retryCount == NextRetryCount(message)
    IN  IF ShouldRetry(retryCount)
        THEN LET retryBuffer ==
                     JSONstringify(SetField(message, "retryCount", retryCount))
             IN  <<FailedFx(errorMessage),
                   PublishFx(PrimaryQueue, retryBuffer), AckFx>>
        ELSE <<FailedFx(errorMessage),
               PublishFx(DLQ, sendToDLQ(message, errorMessage)), AckFx,
               MarkFx(messageId, "failed", <<errorMessage>>)>>

\* fault: the unparsable body is put back on the queue
onParseError_Requeue == <<NackFx(TRUE)>>

\* the catch of JSON.parse: this.channel.nack(msg, false, false)
onParseError == <<NackFx(FALSE)>>

\* processMessage from the delivery to its first suspension or its end:
\* the effects it performs and where the callback stands afterwards
processMessageStart(body) ==
    IF body.json = "invalid"
    THEN [fx |-> onParseError, pc |-> "idle", dispatched |-> FALSE]
    ELSE IF body.json = "null"
    THEN [fx |-> <<ThrowFx>>, pc |-> "idle", dispatched |-> FALSE]
    ELSE LET message == JSONparse(body)
             h == handleMessage(message)
         IN  IF isMessageProcessed(message["messageId"])
             THEN [fx |-> <<AckFx>>, pc |-> "idle", dispatched |-> FALSE]
             ELSE CASE h.kind = "await" ->
                        [fx |-> <<CrmFx(h.call)>>, pc |-> "awaitCRM",
                         dispatched |-> TRUE]
                    [] h.kind = "return" ->
                        [fx |-> afterHandleMessage(message), pc |-> "idle",
                         dispatched |-> TRUE]
                    [] h.kind = "throw" ->
                        [fx |-> catchBlock(message, h.error), pc |-> "idle",
                         dispatched |-> TRUE]

\* processMessage after the awaited CRM adapter call settled
processMessageResume(body, outcome) ==
    IF outcome = Resolved
    THEN afterHandleMessage(JSONparse(body))
    ELSE catchBlock(JSONparse(body), outcome)

\* error.message of the IllegalOperationError that every channel call throws
\* once channel.close() was called
ChannelClosed == "Channel closing"

\* fault: on the closed channel only ack throws, the publishes of the catch
\* block go through
processMessageResumeClosed_PublishWorks(body, outcome) ==
    IF outcome = Resolved
    THEN <<MarkFx(JSONparse(body)["messageId"], "success", <<>>)>>
            \o catchBlock(JSONparse(body), ChannelClosed)
    ELSE catchBlock(JSONparse(body), outcome)

\* processMessage after the awaited CRM adapter call settled when the channel
\* was closed meanwhile: the first channel call (ack, sendToQueue) throws; in
\* the try block that leads into the catch block, in the catch block (or
\* sendToDLQ) the error leaves processMessage
processMessageResumeClosed(body, outcome) ==
    IF outcome = Resolved
    THEN <<MarkFx(JSONparse(body)["messageId"], "success", <<>>),
           FailedFx(ChannelClosed), ThrowFx>>
    ELSE <<FailedFx(outcome), ThrowFx>>

\* ------------------------------------------------- broker and ledger state
\* the first delivery of `body` removed from the un-acked deliveries
Settle(deliveries, body) ==
    LET hits == {i \in DOMAIN deliveries : deliveries[i] = body}
    IN  IF hits = {} THEN deliveries
        ELSE LET i == CHOOSE x \in hits : \A y \in hits : x <= y
             IN  SubSeq(deliveries, 1, i - 1) \o SubSeq(deliveries, i + 1, Len(deliveries))

\* fault: a publish to the primary queue goes to its head
Effect_PublishAtHead(S, e, body) ==
    CASE e.op = "ack" -> [S EXCEPT !.unacked = Settle(@, body)]
      [] e.op = "nack" ->
            IF e.requeue
            THEN [S EXCEPT !.unacked = Settle(@, body), !.queue = <<body>> \o @]
            ELSE [S EXCEPT !.unacked = Settle(@, body)]
      [] e.op = "publish" ->
            IF e.queue = PrimaryQueue
            THEN [S EXCEPT !.queue = <<e.body>> \o @]
            ELSE [S EXCEPT !.dlq = Append(@, e.body)]
      [] e.op = "mark" ->
            [S EXCEPT !.processedMessages =
                          markMessageProcessed(@, e.messageId, e.status, e.error),
                      !.marks[e.messageId] = @ + 1]
      [] OTHER -> S

\* what one effect of the callback handling `body` does to the broker and the ledger
Effect(S, e, body) ==
    CASE e.op = "ack" -> [S EXCEPT !.unacked = Settle(@, body)]
      [] e.op = "nack" ->
            IF e.requeue
            THEN [S EXCEPT !.unacked = Settle(@, body), !.queue = <<body>> \o @]
            ELSE [S EXCEPT !.unacked = Settle(@, body)]
      [] e.op = "publish" ->
            IF e.queue = PrimaryQueue
            THEN [S EXCEPT !.queue = Append(@, e.body)]
            ELSE [S EXCEPT !.dlq = Append(@, e.body)]
      [] e.op = "mark" ->
            [S EXCEPT !.processedMessages =
                          markMessageProcessed(@, e.messageId, e.status, e.error),
                      !.marks[e.messageId] = @ + 1]
      [] OTHER -> S

RECURSIVE Run(_, _, _)
Run(S, effects, body) ==
    IF effects = <<>> THEN S
    ELSE Run(Effect(S, Head(effects), body), Tail(effects), body)

\* the state after the callback handling `body` performed `effects` from S
Perform(S, effects, body) ==
    LET T == Run(S, effects, body)
    IN  /\ queue' = T.queue
        /\ dlq' = T.dlq
        /\ unacked' = T.unacked
        /\ processedMessages' = T.processedMessages
        /\ marks' = T.marks

\* ------------------------------------------------------------------ state
BrokerAndLedger ==
    [queue |-> queue, dlq |-> dlq, unacked |-> unacked,
     processedMessages |-> processedMessages, marks |-> marks]

\* fault: a prefetch window of two deliveries
Prefetch_Two == 1 + 1

\* channel.prefetch(1): the broker holds back deliveries while one is un-acked
Prefetch == 1

\* messages as the producers pass them to sendMessage: no retryCount
ApiMessages ==
    [messageId : MessageIds, event : Events, payload : Payloads,
     timestamp : {"2024-01-01T00:00:00Z"}]

\* bodies that only a foreign publisher can put on the queue
ForeignBodies == {Garbage, NullBody}

\* the channel before connect(): nothing opened, declared or limited
ChannelUnset ==
    [connection |-> FALSE, channel |-> FALSE, durable |-> {}, prefetch |-> 0,
     consumer |-> FALSE]

\* the channel of a started consumer: both queues declared durable, the
\* prefetch limit set, the callback registered
ChannelReady ==
    [connection |-> TRUE, channel |-> TRUE, durable |-> {PrimaryQueue, DLQ},
     prefetch |-> Prefetch, consumer |-> TRUE]

\* no caller of the CRM adapter besides the pipeline
NoCallers == [c \in {} |-> "idle"]

\* nothing was called on the idempotency module from outside the pipeline
NoCall == [call |-> "none", args |-> <<>>, value |-> <<>>]

\* the item addOrderItem appends, also the one item of the initial form
NewOrderItem == [productId |-> "", quantity |-> 1, price |-> 0]

\* useState<Order>({...}): the form as first rendered; only amount and items
\* are touched by the item handlers
InitialOrderForm == [amount |-> 0, items |-> <<NewOrderItem>>]

\* the consumer is started: authenticated, channel set up, consuming
Started ==
    /\ proc = "running"
    /\ token = "set"
    /\ channelSetup = ChannelReady
    /\ caller = NoCallers
    /\ ret = NoCall
    /\ orderForm = InitialOrderForm

\* broker, ledger and callback before anything was published
PipelineInit ==
    /\ queue = <<>>
    /\ dlq = <<>>
    /\ unacked = <<>>
    /\ pc = "idle"
    /\ msg = NoBody
    /\ fx = <<>>
    /\ processedMessages = [k \in {} |-> 0]
    /\ attempts = [id \in MessageIds |-> 0]
    /\ marks = [id \in MessageIds |-> 0]
    /\ copies = [id \in MessageIds |-> 0]
    /\ produced = 0

Init == Started /\ PipelineInit

\* RabbitMQProducer.sendMessage(message)
sendMessage(message) ==
    /\ produced < MaxProduced
    /\ queue' = Append(queue, JSONstringify(message))
    /\ copies' = [copies EXCEPT ![message.messageId] = @ + 1]
    /\ produced' = produced + 1
    /\ UNCHANGED <<dlq, unacked, pc, msg, fx, processedMessages, attempts, marks>>
    /\ UNCHANGED surroundings

\* another client of the broker publishes a body that is not a Message
publishForeign(body) ==
    /\ produced < MaxProduced
    /\ queue' = Append(queue, body)
    /\ produced' = produced + 1
    /\ UNCHANGED <<dlq, unacked, pc, msg, fx, processedMessages, attempts, marks,
                   copies>>
    /\ UNCHANGED surroundings

\* the broker delivers the head of the queue and the consume callback runs
\* processMessage up to its first suspension or its end
processMessage ==
    /\ proc = "running"
    /\ pc = "idle"
    /\ queue # <<>>
    /\ Len(unacked) < Prefetch
    /\ LET body == Head(queue)
           r == processMessageStart(body)
           S == [BrokerAndLedger EXCEPT !.queue = Tail(queue),
                                        !.unacked = Append(unacked, body)]
       IN  /\ msg' = body
           /\ fx' = r.fx
           /\ pc' = r.pc
           /\ attempts' = IF r.dispatched
                          THEN [attempts EXCEPT ![JSONparse(body)["messageId"]] = @ + 1]
                          ELSE attempts
           /\ Perform(S, r.fx, body)
    /\ UNCHANGED <<copies, produced>>
    /\ UNCHANGED surroundings

\* the awaited CRM adapter call settles and processMessage runs to its end
crmCallSettles(outcome) ==
    /\ pc = "awaitCRM"
    /\ proc \in {"running", "closing"}
    /\ LET effects == IF proc = "running"
                      THEN processMessageResume(msg, outcome)
                      ELSE processMessageResumeClosed(msg, outcome)
       IN  /\ fx' = fx \o effects
           /\ Perform(BrokerAndLedger, effects, msg)
    /\ pc' = "idle"
    /\ UNCHANGED <<msg, attempts, copies, produced>>
    /\ UNCHANGED surroundings

Next ==
    \/ \E message \in ApiMessages : sendMessage(message)
    \/ \E body \in ForeignBodies : publishForeign(body)
    \/ processMessage
    \/ \E outcome \in {Resolved} \cup CrmErrors : crmCallSettles(outcome)

Spec == Init /\ [][Next]_vars

\* the consumer is never starved of a step it can take
FairSpec ==
    /\ Spec
    /\ WF_vars(processMessage)
    /\ WF_vars(\E outcome \in {Resolved} \cup CrmErrors : crmCallSettles(outcome))

\* ---------------------------------------------------- the consumer process
LoginUrls == <<"login.salesforce.com", "test.salesforce.com">>

\* what a login endpoint answers: a token, the error invalid_grant, or any
\* other failure
LoginResponses == {"ok", "invalid_grant", "Network Error"}

\* SalesforceService.authenticate, one turn of the loop over loginUrls: what
\* the response of endpoint i leads to
afterLogin(i, response) ==
    IF response = "ok" THEN "return"
    ELSE IF response = "invalid_grant" /\ i < Len(LoginUrls) THEN "continue"
    ELSE "throw"

RECURSIVE authenticateFrom(_, _)
\* SalesforceService.authenticate from endpoint i on, given the responses of
\* the endpoints: "return" (token stored) or "throw"
authenticateFrom(i, responses) ==
    LET a == afterLogin(i, responses[i])
    IN  IF a = "continue" THEN authenticateFrom(i + 1, responses) ELSE a

\* the awaited calls of startConsumer after authenticate(), in order:
\* connect() (amqp.connect, createChannel, assertQueue twice, prefetch) and
\* startConsuming() (channel.consume)
ConnectSteps ==
    <<"connect", "createChannel", "assertQueue", "assertDLQ", "prefetch", "consume">>

StartupSteps == {"authenticate"} \cup {ConnectSteps[i] : i \in DOMAIN ConnectSteps}

\* the position after ConnectSteps[i]
StepAfter(i) == IF i < Len(ConnectSteps) THEN ConnectSteps[i + 1] ELSE "running"

\* fault: startConsumer goes on after a call that failed
afterStartupStep_IgnoreFailure(next, ok) == next

\* startConsumer: a call that throws leads to the catch block and
\* process.exit(1), a call that returns leads to the next one
afterStartupStep(next, ok) == IF ok THEN next ELSE "exit1"

\* what ConnectSteps[i] leaves on the connection and channel when it succeeds
ChannelAfter(i, setup) ==
    CASE ConnectSteps[i] = "connect"       -> [setup EXCEPT !.connection = TRUE]
      [] ConnectSteps[i] = "createChannel" -> [setup EXCEPT !.channel = TRUE]
      [] ConnectSteps[i] = "assertQueue"   ->
            [setup EXCEPT !.durable = @ \cup {PrimaryQueue}]
      [] ConnectSteps[i] = "assertDLQ"     -> [setup EXCEPT !.durable = @ \cup {DLQ}]
      [] ConnectSteps[i] = "prefetch"      -> [setup EXCEPT !.prefetch = Prefetch]
      [] ConnectSteps[i] = "consume"       -> [setup EXCEPT !.consumer = TRUE]

pipeline == <<queue, dlq, unacked, pc, msg, fx, processedMessages, attempts,
              marks, copies, produced>>

\* startConsumer: await salesforceService.authenticate()
startupAuthenticate(responses) ==
    /\ proc = "authenticate"
    /\ LET ok == authenticateFrom(1, responses) = "return"
       IN  /\ token' = IF ok THEN "set" ELSE token
           /\ proc' = afterStartupStep(ConnectSteps[1], ok)
    /\ UNCHANGED <<channelSetup, caller, ret, orderForm>>
    /\ UNCHANGED pipeline

\* startConsumer: await consumer.connect(), await consumer.startConsuming(),
\* one awaited broker call per step
startupBroker(ok) ==
    /\ \E i \in DOMAIN ConnectSteps :
          /\ proc = ConnectSteps[i]
          /\ channelSetup' = IF ok THEN ChannelAfter(i, channelSetup) ELSE channelSetup
          /\ proc' = afterStartupStep(StepAfter(i), ok)
    /\ UNCHANGED <<token, caller, ret, orderForm>>
    /\ UNCHANGED pipeline

\* the SIGTERM / SIGINT handler up to its await: consumer.close() calls
\* channel.close() at once; the broker puts the deliveries of the closed
\* channel that were not acked back at the head of their queue
shutdown ==
    /\ proc = "running"
    /\ proc' = "closing"
    /\ queue' = unacked \o queue
    /\ unacked' = <<>>
    /\ UNCHANGED <<token, channelSetup, caller, ret, orderForm>>
    /\ UNCHANGED <<dlq, pc, msg, fx, processedMessages, attempts, marks, copies,
                   produced>>

\* the SIGTERM / SIGINT handler after consumer.close(): process.exit(0)
exit ==
    /\ proc = "closing"
    /\ proc' = "exit0"
    /\ UNCHANGED <<token, channelSetup, caller, ret, orderForm>>
    /\ UNCHANGED pipeline

\* the consumer process before startConsumer ran
InitLifecycle ==
    /\ proc = "authenticate"
    /\ token = "null"
    /\ channelSetup = ChannelUnset
    /\ caller = NoCallers
    /\ ret = NoCall
    /\ orderForm = InitialOrderForm
    /\ PipelineInit

NextLifecycle ==
    \/ \E responses \in [DOMAIN LoginUrls -> LoginResponses] :
          startupAuthenticate(responses)
    \/ \E ok \in BOOLEAN : startupBroker(ok)
    \/ \E message \in ApiMessages : sendMessage(message)
    \/ \E body \in ForeignBodies : publishForeign(body)
    \/ processMessage
    \/ \E outcome \in {Resolved} \cup CrmErrors : crmCallSettles(outcome)
    \/ shutdown
    \/ exit

\* the consumer process from its start to its exit
Lifecycle == InitLifecycle /\ [][NextLifecycle]_vars

\* -------------------------------------------- callers of the CRM adapter
Callers == 1 .. MaxCallers

\* where an operation of the adapter (createOrUpdateCustomer,
\* createOrUpdateOrder) is: not called yet ("idle"), awaiting the login
\* endpoint url inside authenticate ("login"), awaiting its own CRM request
\* ("request"), returned ("done") or rejected by authenticate ("failed")
At(position, url) == [at |-> position, url |-> url]

\* SalesforceService.ensureAuthenticated as the first statement of an
\* operation: if (!this.token) await this.authenticate()
ensureAuthenticated(tok) ==
    IF tok = "null" THEN At("login", 1) ELSE At("request", 0)

\* an operation of the adapter is called
callAdapter(c) ==
    /\ caller[c].at = "idle"
    /\ caller' = [caller EXCEPT ![c] = ensureAuthenticated(token)]
    /\ UNCHANGED <<proc, token, channelSetup, ret, orderForm>>
    /\ UNCHANGED pipeline

\* the login endpoint a caller awaits inside authenticate answers
loginResponds(c, response) ==
    /\ caller[c].at = "login"
    /\ LET a == afterLogin(caller[c].url, response)
       IN  /\ token' = IF a = "return" THEN "set" ELSE token
           /\ caller' = [caller EXCEPT ![c] =
                  CASE a = "return"   -> At("request", 0)
                    [] a = "continue" -> At("login", caller[c].url + 1)
                    [] a = "throw"    -> At("failed", 0)]
    /\ UNCHANGED <<proc, channelSetup, ret, orderForm>>
    /\ UNCHANGED pipeline

\* the CRM request of an authenticated operation settles
requestResponds(c) ==
    /\ caller[c].at = "request"
    /\ caller' = [caller EXCEPT ![c] = At("done", 0)]
    /\ UNCHANGED <<proc, token, channelSetup, ret, orderForm>>
    /\ UNCHANGED pipeline

\* a new SalesforceService (token = null) with no operation called yet
InitAuth ==
    /\ proc = "unstarted"
    /\ token = "null"
    /\ channelSetup = ChannelUnset
    /\ caller = [c \in Callers |-> At("idle", 0)]
    /\ ret = NoCall
    /\ orderForm = InitialOrderForm
    /\ PipelineInit

NextAuth ==
    \/ \E c \in Callers : callAdapter(c)
    \/ \E c \in Callers, response \in LoginResponses : loginResponds(c, response)
    \/ \E c \in Callers : requestResponds(c)

\* operations called on one SalesforceService without awaiting one another
SpecAuth == InitAuth /\ [][NextAuth]_vars

\* --------------------------------------- callers of the idempotency module
\* the status and error arguments the callers of markMessageProcessed pass:
\* 'success' without error, 'failed' with the text of the error
MarkArgs ==
    {<<"success", <<>>>>} \cup {<<"failed", <<e>>>> : e \in CrmErrors \cup {"Test error"}}

\* a call and what it returned: <<>> for void and undefined
Call(name, args, value) == [call |-> name, args |-> args, value |-> value]

callMarkMessageProcessed(messageId, status, error) ==
    /\ processedMessages' = markMessageProcessed(processedMessages, messageId, status, error)
    /\ ret' = Call("markMessageProcessed", <<messageId, status, error>>, <<>>)
    /\ UNCHANGED <<proc, token, channelSetup, caller, orderForm>>
    /\ UNCHANGED <<queue, dlq, unacked, pc, msg, fx, attempts, marks, copies, produced>>

callIsMessageProcessed(messageId) ==
    /\ ret' = Call("isMessageProcessed", <<messageId>>, <<isMessageProcessed(messageId)>>)
    /\ UNCHANGED <<proc, token, channelSetup, caller, orderForm>>
    /\ UNCHANGED pipeline

callGetMessageStatus(messageId) ==
    /\ ret' = Call("getMessageStatus", <<messageId>>, getMessageStatus(messageId))
    /\ UNCHANGED <<proc, token, channelSetup, caller, orderForm>>
    /\ UNCHANGED pipeline

callClearProcessedMessages ==
    /\ processedMessages' = clearProcessedMessages
    /\ ret' = Call("clearProcessedMessages", <<>>, <<>>)
    /\ UNCHANGED <<proc, token, channelSetup, caller, orderForm>>
    /\ UNCHANGED <<queue, dlq, unacked, pc, msg, fx, attempts, marks, copies, produced>>

\* the idempotency module as loaded, before any call
InitLedger ==
    /\ proc = "unstarted"
    /\ token = "null"
    /\ channelSetup = ChannelUnset
    /\ caller = NoCallers
    /\ ret = NoCall
    /\ orderForm = InitialOrderForm
    /\ PipelineInit

NextLedger ==
    \/ \E messageId \in MessageIds, a \in MarkArgs :
          callMarkMessageProcessed(messageId, a[1], a[2])
    \/ \E messageId \in MessageIds : callIsMessageProcessed(messageId)
    \/ \E messageId \in MessageIds : callGetMessageStatus(messageId)
    \/ callClearProcessedMessages

\* the idempotency module under calls in any order
LedgerSpec == InitLedger /\ [][NextLedger]_vars

\* ------------------------------------------------------ a consumer crash
\* the consumer process dies while the callback handling `body` has performed
\* the first k of `effects` from S: the broker has seen just those, and puts
\* the deliveries that are still un-acked back at the head of the queue
Crash(S, effects, k, body) ==
    LET T == Run(S, SubSeq(effects, 1, k), body)
    IN  /\ queue' = T.unacked \o T.queue
        /\ unacked' = <<>>
        /\ dlq' = T.dlq
        /\ processedMessages' = T.processedMessages
        /\ marks' = T.marks
        /\ proc' = "crashed"
        /\ pc' = "idle"

\* the process dies in processMessage between the delivery and the first
\* suspension (or the end) of the callback
crashInDelivery ==
    /\ proc = "running"
    /\ pc = "idle"
    /\ queue # <<>>
    /\ Len(unacked) < Prefetch
    /\ LET body == Head(queue)
           r == processMessageStart(body)
           S == [BrokerAndLedger EXCEPT !.queue = Tail(queue),
                                        !.unacked = Append(unacked, body)]
       IN  /\ msg' = body
           /\ attempts' = IF r.dispatched
                          THEN [attempts EXCEPT ![JSONparse(body)["messageId"]] = @ + 1]
                          ELSE attempts
           /\ \E k \in 0 .. Len(r.fx) :
                 /\ fx' = SubSeq(r.fx, 1, k)
                 /\ Crash(S, r.fx, k, body)
    /\ UNCHANGED <<copies, produced>>
    /\ UNCHANGED <<token, channelSetup, caller, ret, orderForm>>

\* the process dies in processMessage after the awaited CRM adapter call
\* settled, somewhere between its statements
crashAfterCrmCall(outcome) ==
    /\ proc = "running"
    /\ pc = "awaitCRM"
    /\ LET effects == processMessageResume(msg, outcome)
       IN  \E k \in 0 .. Len(effects) :
              /\ fx' = fx \o SubSeq(effects, 1, k)
              /\ Crash(BrokerAndLedger, effects, k, msg)
    /\ UNCHANGED <<msg, attempts, copies, produced>>
    /\ UNCHANGED <<token, channelSetup, caller, ret, orderForm>>

NextCrash ==
    \/ \E message \in ApiMessages : sendMessage(message)
    \/ \E body \in ForeignBodies : publishForeign(body)
    \/ processMessage
    \/ \E outcome \in {Resolved} \cup CrmErrors : crmCallSettles(outcome)
    \/ crashInDelivery
    \/ \E outcome \in {Resolved} \cup CrmErrors : crashAfterCrmCall(outcome)

\* the pipeline with a consumer that may die at any statement
CrashSpec == Init /\ [][NextCrash]_vars

\* ------------------------------------------------------ the HTTP front-end
\* A request body is the object express.json() parsed: a function from the
\* fields that are present with a truthy value to what they hold.  The
\* fields of a customer and of an order are kept as present (TRUE) only.
MessageBodies ==
    {[f \in {} |-> TRUE]}
    \cup {[f \in {"event"} |-> e] : e \in Events}
    \cup {[f \in {"payload"} |-> p] : p \in Payloads}
    \cup {[f \in {"event", "payload"} |-> IF f = "event" THEN e ELSE p] :
             e \in Events, p \in Payloads}

CustomerBodies ==
    UNION {[d -> {TRUE}] : d \in SUBSET {"id", "name", "email", "phone"}}

OrderBodies ==
    UNION {[d -> {TRUE}] :
              d \in SUBSET {"id", "customerId", "amount", "currency", "items"}}

\* what producer.sendMessage does: returns true, returns false (write buffer
\* full, the message is buffered all the same), or throws (not connected,
\* channel closed)
SendOutcomes == {"true", "false", "throw"}

\* POST /api/messages: the 400 answers
messagesRejects(body) ==
    \/ "event" \notin DOMAIN body \/ "payload" \notin DOMAIN body
    \/ body["event"] \notin KnownEvents

\* POST /api/customers: the 400 answer
customersRejects(body) ==
    "id" \notin DOMAIN body \/ "name" \notin DOMAIN body \/ "email" \notin DOMAIN body

\* fault: items is not required
ordersRejects_ItemsOptional(body) ==
    "id" \notin DOMAIN body \/ "customerId" \notin DOMAIN body
       \/ "amount" \notin DOMAIN body

\* POST /api/orders: the 400 answer
ordersRejects(body) ==
    "id" \notin DOMAIN body \/ "customerId" \notin DOMAIN body
       \/ "amount" \notin DOMAIN body \/ "items" \notin DOMAIN body

\* the RabbitMQMessage a route builds
NewMessage(messageId, event, payload) ==
    [messageId |-> messageId, event |-> event, payload |-> payload,
     timestamp |-> "2024-01-01T00:00:00Z"]

\* the status a route answers after producer.sendMessage
statusAfterSend(sent) ==
    CASE sent = "true" -> 201 [] sent = "false" -> 503 [] sent = "throw" -> 500

\* a route handler from the request to the response
Route(name, body, rejects, message, sent) ==
    /\ IF rejects
       THEN /\ ret' = Call(name, <<body>>, <<400>>)
            /\ UNCHANGED <<queue, copies, produced>>
       ELSE /\ produced < MaxProduced
            /\ copies[message.messageId] = 0
            /\ ret' = Call(name, <<body, sent>>, <<statusAfterSend(sent)>>)
            /\ queue' = IF sent = "throw" THEN queue
                        ELSE Append(queue, JSONstringify(message))
            /\ copies' = IF sent = "throw" THEN copies
                         ELSE [copies EXCEPT ![message.messageId] = @ + 1]
            /\ produced' = IF sent = "throw" THEN produced ELSE produced + 1
    /\ UNCHANGED <<dlq, unacked, pc, msg, fx, processedMessages, attempts, marks>>
    /\ UNCHANGED <<proc, token, channelSetup, caller, orderForm>>

postMessages(body, uuid, sent) ==
    /\ uuid \in MessageIds
    /\ Route("POST /api/messages", body, messagesRejects(body),
             IF messagesRejects(body) THEN NewMessage(uuid, "", {})
             ELSE NewMessage(uuid, body["event"], body["payload"]),
             sent)

postCustomers(body, uuid, sent) ==
    /\ uuid \in MessageIds
    /\ Route("POST /api/customers", body, customersRejects(body),
             NewMessage(uuid, "CREATE_CUSTOMER", {"customer"}), sent)

postOrders(body, uuid, sent) ==
    /\ uuid \in MessageIds
    /\ Route("POST /api/orders", body, ordersRejects(body),
             NewMessage(uuid, "CREATE_ORDER", {"order"}), sent)

\* the producer API is up, no consumer is running
InitApi ==
    /\ proc = "unstarted"
    /\ token = "null"
    /\ channelSetup = ChannelUnset
    /\ caller = NoCallers
    /\ ret = NoCall
    /\ orderForm = InitialOrderForm
    /\ PipelineInit

NextApi ==
    \/ \E body \in MessageBodies, uuid \in MessageIds, sent \in SendOutcomes :
          postMessages(body, uuid, sent)
    \/ \E body \in CustomerBodies, uuid \in MessageIds, sent \in SendOutcomes :
          postCustomers(body, uuid, sent)
    \/ \E body \in OrderBodies, uuid \in MessageIds, sent \in SendOutcomes :
          postOrders(body, uuid, sent)

\* requests to the three POST routes of the producer API
ApiSpec == InitApi /\ [][NextApi]_vars

\* ---------------------------------------------------- the codec on its own
\* the Message objects that get encoded: what the front-end builds, and what
\* the retry branch builds from it by setting retryCount
EncodedMessages ==
    ApiMessages \cup
    {SetField(m, "retryCount", n) : m \in ApiMessages, n \in 1 .. maxRetries - 1}

\* Buffer.from(JSON.stringify(message)) in sendMessage and in the retry branch
encode(message) ==
    /\ ret' = Call("JSONstringify", <<message>>, <<JSONstringify(message)>>)
    /\ UNCHANGED <<proc, token, channelSetup, caller, orderForm>>
    /\ UNCHANGED pipeline

\* JSON.parse(msg.content.toString()) in processMessage, of the body that was
\* encoded last
decode ==
    /\ ret.call = "JSONstringify"
    /\ ret' = Call("JSONparse", ret.value, <<JSONparse(ret.value[1])>>)
    /\ UNCHANGED <<proc, token, channelSetup, caller, orderForm>>
    /\ UNCHANGED pipeline

InitCodec ==
    /\ proc = "unstarted"
    /\ token = "null"
    /\ channelSetup = ChannelUnset
    /\ caller = NoCallers
    /\ ret = NoCall
    /\ orderForm = InitialOrderForm
    /\ PipelineInit

NextCodec ==
    \/ \E message \in EncodedMessages : encode(message)
    \/ decode

\* messages encoded and decoded outside any delivery
CodecSpec == InitCodec /\ [][NextCodec]_vars

\* ------------------------------------------------------------ order form
\* what the inputs of an item hand to updateOrderItem: the text of the
\* product id, parseInt(..) || 0 for the quantity, parseFloat(..) || 0 for
\* the price (prices counted in whole units)
ProductIds == {"", "P1"}
Quantities == 0 .. MaxQuantity
Prices == 0 .. MaxPrice
ItemFields == {"productId", "quantity", "price"}
FieldValues(field) ==
    CASE field = "productId" -> ProductIds
      [] field = "quantity" -> Quantities
      [] field = "price" -> Prices

\* newItems.reduce((sum, item) => sum + item.price * item.quantity, 0)
RECURSIVE totalAmount(_)
totalAmount(newItems) ==
    IF newItems = <<>> THEN 0
    ELSE LET n == Len(newItems)
         IN  totalAmount(SubSeq(newItems, 1, n - 1))
               + newItems[n].price * newItems[n].quantity

\* items.filter((_, i) => i !== index), index counted from 1 here
WithoutItem(items, index) ==
    SubSeq(items, 1, index - 1) \o SubSeq(items, index + 1, Len(items))

\* the "+ Add Item" button: addOrderItem()
addOrderItem ==
    /\ Len(orderForm.items) < MaxItems
    /\ orderForm' = [orderForm EXCEPT !.items = Append(@, NewOrderItem)]
    /\ UNCHANGED <<proc, token, channelSetup, caller, ret>>
    /\ UNCHANGED pipeline

\* the "Remove" button of an item, rendered when the form has more than one
\* item: removeOrderItem(index)
removeOrderItem(index) ==
    /\ Len(orderForm.items) > 1
    /\ index \in DOMAIN orderForm.items
    /\ orderForm' = [orderForm EXCEPT !.items = WithoutItem(@, index)]
    /\ UNCHANGED <<proc, token, channelSetup, caller, ret>>
    /\ UNCHANGED pipeline

\* onChange of an input of an item: updateOrderItem(index, field, value)
updateOrderItem(index, field, value) ==
    /\ index \in DOMAIN orderForm.items
    /\ LET newItems == [orderForm.items EXCEPT ![index][field] = value]
       IN  orderForm' = [orderForm EXCEPT !.items = newItems,
                                          !.amount = totalAmount(newItems)]
    /\ UNCHANGED <<proc, token, channelSetup, caller, ret>>
    /\ UNCHANGED pipeline

\* the front end before the user touched the order form
InitForm ==
    /\ proc = "unstarted"
    /\ token = "null"
    /\ channelSetup = ChannelUnset
    /\ caller = NoCallers
    /\ ret = NoCall
    /\ orderForm = InitialOrderForm
    /\ PipelineInit

NextForm ==
    \/ addOrderItem
    \/ \E index \in 1 .. MaxItems : removeOrderItem(index)
    \/ \E index \in 1 .. MaxItems, field \in ItemFields :
          \E value \in FieldValues(field) : updateOrderItem(index, field, value)

\* the user editing the items of the order form
FormSpec == InitForm /\ [][NextForm]_vars

\* ------------------------------------------------------------ vocabulary
IsObject(body) == body.json = "object"

\* the callback has handled the delivery msg and returned
Handled == pc = "idle" /\ msg # NoBody

\* the effects of kind op among f
Of(f, ops) == SelectSeq(f, LAMBDA e : e.op \in ops)

PublishedTo(f, q) == SelectSeq(Of(f, {"publish"}), LAMBDA e : e.queue = q)

\* the bodies in a queue that carry messageId id
WithId(q, id) == SelectSeq(q, LAMBDA b : IsObject(b) /\ JSONparse(b)["messageId"] = id)

InDLQ(id) == WithId(dlq, id) # <<>>

\* a step in which the broker delivers the head of the queue to the callback
DeliveryStep ==
    /\ pc = "idle" /\ queue # <<>> /\ produced' = produced
    /\ surroundings' = surroundings /\ vars' # vars

\* ---------------------------------------------------------------- claims
\* C1: a messageId that was published once is dispatched at most maxRetries
\* times, whatever the dispatches return, and once an envelope with it is in
\* the DLQ it is never dispatched again.
C1_BoundedDispatch ==
    /\ [](\A id \in MessageIds : copies[id] = 1 => attempts[id] <= maxRetries)
    /\ [][\A id \in MessageIds : InDLQ(id) => attempts'[id] = attempts[id]]_vars

\* C1 witness: a message published once was dispatched maxRetries times, each
\* dispatch failed, and it is in the DLQ.
C1_Witness ==
    \E id \in MessageIds :
        /\ copies[id] = 1
        /\ attempts[id] = maxRetries
        /\ InDLQ(id)
        /\ Handled

\* C2: the ledger is written at most once per messageId, a record exists
\* exactly for the ids that were written, the write comes with the terminal
\* outcome (Success, or Failed together with the DLQ envelope), and no later
\* step changes or removes a record.
C2_LedgerWrittenOnce ==
    /\ [](\A id \in MessageIds :
            /\ marks[id] = IF id \in DOMAIN processedMessages THEN 1 ELSE 0
            /\ id \in DOMAIN processedMessages =>
                  \/ processedMessages[id].status = "success" /\ ~InDLQ(id)
                  \/ processedMessages[id].status = "failed" /\ InDLQ(id)
            /\ InDLQ(id) => id \in DOMAIN processedMessages)
    /\ [][\A id \in DOMAIN processedMessages :
            /\ id \in DOMAIN processedMessages'
            /\ processedMessages'[id] = processedMessages[id]]_vars

\* C2 witness: a second copy of a recorded messageId was delivered and
\* handled, and the ledger still holds the one record.
C2_Witness ==
    \E id \in MessageIds :
        /\ copies[id] = 2
        /\ marks[id] = 1
        /\ Handled /\ IsObject(msg) /\ JSONparse(msg)["messageId"] = id
        /\ Of(fx, {"mark"}) = <<>>

\* the acknowledgments and negative acknowledgments among f
Settlements(f) == Of(f, {"ack", "nack"})

\* the catch block of processMessage ran: the dispatch failed
DispatchFailed(f) == Of(f, {"failed"}) # <<>>

\* C3: every delivery handed to the consumer is eventually acknowledged or
\* negatively acknowledged, so the consumer gets to the messages behind it.
C3_NoSilentLoss == (unacked # <<>>) ~> (unacked = <<>>)

\* C4: the callback never settles its delivery twice, and when it has
\* returned it has acknowledged or negatively acknowledged it exactly once.
C4_SettledExactlyOnce ==
    /\ Len(Settlements(fx)) <= 1
    /\ Handled => Len(Settlements(fx)) = 1

\* C5: delivering a body whose messageId the ledger records as Success does
\* nothing but acknowledge the delivery: no CRM adapter call, no publish to
\* the primary queue or the DLQ, no ledger change.
C5_SuccessDuplicateAcked ==
    [][(/\ DeliveryStep
        /\ IsObject(Head(queue))
        /\ JSONparse(Head(queue))["messageId"] \in DOMAIN processedMessages
        /\ processedMessages[JSONparse(Head(queue))["messageId"]].status = "success")
       => /\ fx' = <<AckFx>>
          /\ pc' = "idle"
          /\ unacked' = <<>>
          /\ queue' = Tail(queue)
          /\ dlq' = dlq
          /\ processedMessages' = processedMessages
          /\ marks' = marks
          /\ attempts' = attempts]_vars

\* C5 witness: a delivery of a messageId recorded as Success was handled
\* without writing the ledger, by an acknowledgment alone.
C5_Witness ==
    /\ Handled /\ IsObject(msg)
    /\ JSONparse(msg)["messageId"] \in DOMAIN processedMessages
    /\ processedMessages[JSONparse(msg)["messageId"]].status = "success"
    /\ fx = <<AckFx>>

\* C6: when the dispatch of a message with retryCount (absent = 0) below
\* maxRetries - 1 fails, the callback publishes exactly one body to the
\* primary queue, nothing to the DLQ, the body decodes to the message with
\* retryCount one higher and messageId, event, payload, timestamp unchanged,
\* it is on the queue, and the delivery is acknowledged.
C6_RetryRepublish ==
    (/\ Handled /\ IsObject(msg) /\ DispatchFailed(fx)
     /\ RetryCountOr0(JSONparse(msg)) < maxRetries - 1)
    => LET m == JSONparse(msg)
           pubs == PublishedTo(fx, PrimaryQueue)
       IN  /\ Len(pubs) = 1
           /\ PublishedTo(fx, DLQ) = <<>>
           /\ LET r == JSONparse(pubs[1].body)
              IN  /\ DOMAIN r = DOMAIN m \cup {"retryCount"}
                  /\ r["retryCount"] = RetryCountOr0(m) + 1
                  /\ \A k \in {"messageId", "event", "payload", "timestamp"} :
                        r[k] = m[k]
           /\ \E i \in DOMAIN queue : queue[i] = pubs[1].body
           /\ Settlements(fx) = <<AckFx>>

\* C6 witness: a message that already carries retryCount 1 failed again and
\* was republished.
C6_Witness ==
    /\ Handled /\ IsObject(msg) /\ DispatchFailed(fx)
    /\ RetryCountOr0(JSONparse(msg)) = 1
    /\ Len(PublishedTo(fx, PrimaryQueue)) = 1

\* C7: when the dispatch of a message with retryCount = maxRetries - 1 fails,
\* the callback publishes one envelope with its messageId to the DLQ and
\* nothing to the primary queue.
C7_ExhaustedToDLQ ==
    (/\ Handled /\ IsObject(msg) /\ DispatchFailed(fx)
     /\ RetryCountOr0(JSONparse(msg)) = maxRetries - 1)
    => /\ PublishedTo(fx, PrimaryQueue) = <<>>
       /\ Len(PublishedTo(fx, DLQ)) = 1
       /\ dlq # <<>>
       /\ dlq[Len(dlq)] = PublishedTo(fx, DLQ)[1].body
       /\ JSONparse(dlq[Len(dlq)])["messageId"] = JSONparse(msg)["messageId"]

\* C7 witness: a message with retryCount = maxRetries - 1 failed and its
\* envelope is the newest one in the DLQ.
C7_Witness ==
    /\ Handled /\ IsObject(msg) /\ DispatchFailed(fx)
    /\ RetryCountOr0(JSONparse(msg)) = maxRetries - 1
    /\ InDLQ(JSONparse(msg)["messageId"])

\* C8: every body the callback publishes to the primary queue carries the
\* messageId of the delivery it handles and a retryCount greater than that
\* delivery's and below maxRetries; no body on the primary queue has a
\* retryCount of maxRetries or more.
C8_RetryCountIncreases ==
    /\ \A i \in DOMAIN queue :
          IsObject(queue[i]) => RetryCountOr0(JSONparse(queue[i])) < maxRetries
    /\ LET pubs == PublishedTo(fx, PrimaryQueue)
       IN  \A i \in DOMAIN pubs :
              LET r == JSONparse(pubs[i].body)
              IN  /\ r["messageId"] = JSONparse(msg)["messageId"]
                  /\ "retryCount" \in DOMAIN r
                  /\ r["retryCount"] > RetryCountOr0(JSONparse(msg))
                  /\ r["retryCount"] < maxRetries

\* C8 witness: the second republish of a message, retryCount 1 -> 2.
C8_Witness ==
    /\ Handled /\ IsObject(msg)
    /\ RetryCountOr0(JSONparse(msg)) = 1
    /\ \E i \in DOMAIN queue :
          /\ IsObject(queue[i])
          /\ JSONparse(queue[i])["messageId"] = JSONparse(msg)["messageId"]
          /\ RetryCountOr0(JSONparse(queue[i])) = 2

\* C9: handling one delivery publishes at most one body in all, to the
\* primary queue or to the DLQ, and nothing at all unless the dispatch failed.
C9_AtMostOnePublish ==
    /\ Len(Of(fx, {"publish"})) <= 1
    /\ (Handled /\ ~DispatchFailed(fx)) => Of(fx, {"publish"}) = <<>>

\* C9 witness: a delivery that ended in the DLQ, with that one publish.
C9_Witness ==
    /\ Handled
    /\ Len(PublishedTo(fx, DLQ)) = 1
    /\ Len(Of(fx, {"publish"})) = 1

\* C10: delivering a body that JSON.parse rejects does nothing but a negative
\* acknowledgment without requeue: the body leaves the primary queue for
\* good, the ledger and the DLQ are unchanged and nothing is dispatched.
C10_UnparsableNacked ==
    [][(DeliveryStep /\ Head(queue).json = "invalid")
       => /\ fx' = <<NackFx(FALSE)>>
          /\ pc' = "idle"
          /\ unacked' = <<>>
          /\ queue' = Tail(queue)
          /\ dlq' = dlq
          /\ processedMessages' = processedMessages
          /\ marks' = marks
          /\ attempts' = attempts]_vars

\* C10 witness: an unparsable body was delivered and negatively acknowledged.
C10_Witness ==
    /\ Handled /\ msg = Garbage
    /\ fx = <<NackFx(FALSE)>>
    /\ unacked = <<>>

\* the event names one kind of payload and the payload lacks it
Mismatch(message) ==
    \/ message["event"] \in {"CREATE_ORDER", "UPDATE_ORDER"}
          /\ "order" \notin message["payload"]
    \/ message["event"] \in {"CREATE_CUSTOMER", "UPDATE_CUSTOMER"}
          /\ "customer" \notin message["payload"]

\* the CRM adapter calls among f
CrmCalls(f) == Of(f, {"createOrUpdateOrder", "createOrUpdateCustomer"})

\* C11: a delivery whose event and payload do not match is negatively
\* acknowledged without requeue and nothing else: it is not dispatched and
\* the ledger never records its messageId as Success.
C11_MismatchRejected ==
    (Handled /\ IsObject(msg) /\ Mismatch(JSONparse(msg)))
    => /\ fx = <<NackFx(FALSE)>>
       /\ LET id == JSONparse(msg)["messageId"]
          IN  id \in DOMAIN processedMessages
                 => processedMessages[id].status # "success"

\* C12: the callback never issues a negative acknowledgment with requeue;
\* the only negative acknowledgment is the one for a body JSON.parse rejects,
\* and a failed dispatch is settled by an acknowledgment, so a message comes
\* back only through the republish with its retry counter.
C12_NoRequeue ==
    /\ \A i \in DOMAIN fx :
          fx[i].op = "nack" => ~fx[i].requeue /\ msg.json = "invalid"
    /\ (Handled /\ DispatchFailed(fx)) => Settlements(fx) = <<AckFx>>

\* C12 witness: a negative acknowledgment was issued, without requeue, and
\* the body is on neither queue.
C12_Witness ==
    /\ \E i \in DOMAIN fx : fx[i].op = "nack" /\ ~fx[i].requeue
    /\ \A i \in DOMAIN queue : queue[i] # msg
    /\ dlq = <<>>

\* the body in the DLQ that carries messageId id (the first one)
Envelope(id) == JSONparse(WithId(dlq, id)[1])

\* C13: for a message published once without retryCount, every copy of it on
\* the primary queue carries as retryCount the number of dispatches that
\* failed so far (1 after the first, 2 after the second), and after the
\* third failed dispatch the DLQ holds its one envelope: the message with
\* retryCount 2, dlqReason equal to the error of that third dispatch and a
\* dlqTimestamp, and the ledger records it as failed with the same error.
C13_ThreeAttemptsThenDLQ ==
    \A id \in MessageIds :
        copies[id] = 1 =>
            /\ \A i \in DOMAIN queue :
                  (IsObject(queue[i]) /\ JSONparse(queue[i])["messageId"] = id)
                     => /\ RetryCountOr0(JSONparse(queue[i])) = attempts[id]
                        /\ attempts[id] < maxRetries
                        /\ Len(WithId(queue, id)) = 1
                        /\ ~InDLQ(id)
            /\ InDLQ(id) =>
                  /\ attempts[id] = maxRetries
                  /\ Len(WithId(dlq, id)) = 1
                  /\ DOMAIN Envelope(id) =
                        {"messageId", "event", "payload", "timestamp",
                         "retryCount", "dlqReason", "dlqTimestamp"}
                  /\ Envelope(id)["retryCount"] = maxRetries - 1
                  /\ id \in DOMAIN processedMessages
                  /\ processedMessages[id].status = "failed"
                  /\ processedMessages[id].error = Envelope(id)["dlqReason"]
                  /\ (IsObject(msg) /\ JSONparse(msg)["messageId"] = id)
                        => Envelope(id)["dlqReason"] = Of(fx, {"failed"})[1].error

\* C13 witness: m1, a CREATE_ORDER with an order, published once, failed
\* three times, the last time with "Network Error", and is in the DLQ with
\* that error as dlqReason.
C13_Witness ==
    /\ copies["m1"] = 1 /\ attempts["m1"] = 3 /\ InDLQ("m1")
    /\ Envelope("m1")["event"] = "CREATE_ORDER"
    /\ Envelope("m1")["payload"] = {"order"}
    /\ Envelope("m1")["dlqReason"] = "Network Error"
    /\ processedMessages["m1"].status = "failed"
    /\ IsObject(msg) /\ JSONparse(msg)["messageId"] = "m1"
    /\ Of(fx, {"failed"})[1].error = "Network Error"

\* C14: when the CRM adapter call of a delivery succeeds, the callback does
\* just this: it records the messageId as success (no error) and then
\* acknowledges the delivery once; it publishes nothing to either queue.
C14_SuccessPath ==
    (Handled /\ IsObject(msg) /\ CrmCalls(fx) # <<>> /\ ~DispatchFailed(fx))
    => LET id == JSONparse(msg)["messageId"]
       IN  /\ fx = <<fx[1], MarkFx(id, "success", <<>>), AckFx>>
           /\ Len(CrmCalls(fx)) = 1
           /\ id \in DOMAIN processedMessages
           /\ processedMessages[id] =
                 [messageId |-> id, processedAt |-> "now", status |-> "success"]
           /\ ~InDLQ(id)
           /\ unacked = <<>>

\* C14 witness: a message published once succeeded on its first dispatch.
C14_Witness ==
    /\ Handled /\ IsObject(msg) /\ CrmCalls(fx) # <<>> /\ ~DispatchFailed(fx)
    /\ "retryCount" \notin DOMAIN JSONparse(msg)
    /\ copies[JSONparse(msg)["messageId"]] = 1
    /\ attempts[JSONparse(msg)["messageId"]] = 1
    /\ processedMessages[JSONparse(msg)["messageId"]].status = "success"
    /\ queue = <<>> /\ dlq = <<>>

\* C15: the consumer holds at most one un-acked delivery; while the callback
\* waits for the CRM adapter that delivery is the one it handles; and the
\* broker hands the callback a delivery only when no earlier one is un-acked.
C15_OneAtATime ==
    /\ [](/\ Len(unacked) <= 1
          /\ pc = "awaitCRM" => unacked = <<msg>>)
    /\ [][DeliveryStep => unacked = <<>> /\ Len(unacked') <= 1]_vars

\* C15 witness: a second message waits on the queue while the callback is
\* suspended in the CRM adapter call of the first.
C15_Witness ==
    /\ pc = "awaitCRM"
    /\ unacked = <<msg>>
    /\ queue # <<>>

\* C16: once a shutdown signal closed the channel, no delivery is outstanding
\* on it, and a message that was dispatched to the CRM adapter has got its
\* ack or nack: the handler of the signal waits for the message in flight.
C16_InFlightSettledBeforeClose ==
    proc \in {"closing", "exit0"}
    => /\ unacked = <<>>
       /\ CrmCalls(fx) # <<>> => Settlements(fx) # <<>>

\* C17: among the operations of the CRM adapter under way, at most one is
\* inside authenticate at any time: a caller that finds no token while a login
\* is in flight waits for that login instead of starting its own.
C17_OneLoginInFlight ==
    Cardinality({c \in DOMAIN caller : caller[c].at = "login"}) <= 1

C19_IsProcessedIffRecorded ==
    /\ [](/\ ret.call = "isMessageProcessed"
              => ret.value = <<ret.args[1] \in DOMAIN processedMessages>>
          /\ ret.call = "markMessageProcessed"
              => /\ ret.args[1] \in DOMAIN processedMessages
                 /\ processedMessages[ret.args[1]].status = ret.args[2]
          /\ ret.call \in {"none", "clearProcessedMessages"}
              => DOMAIN processedMessages = {})
    /\ [][ret'.call \in {"isMessageProcessed", "getMessageStatus"}
             => processedMessages' = processedMessages]_vars

\* C19 witness: isMessageProcessed returned true for an id recorded as
\* success while the other id has no record.
C19_Witness ==
    /\ ret.call = "isMessageProcessed"
    /\ ret.args = <<"m1">>
    /\ ret.value = <<TRUE>>
    /\ DOMAIN processedMessages = {"m1"}
    /\ processedMessages["m1"].status = "success"

\* C20: a ledger record has an error exactly when its status is failed, and
\* after markMessageProcessed(id, 'failed', e) getMessageStatus(id) returns
\* the record with status failed and error e.
C20_ErrorIffFailed ==
    /\ \A id \in MessageIds :
          getMessageStatus(id) # <<>>
          => (("error" \in DOMAIN getMessageStatus(id)[1])
                 <=> getMessageStatus(id)[1].status = "failed")
    /\ \A i \in DOMAIN fx :
          (fx[i].op = "mark" /\ fx[i].status = "failed")
          => getMessageStatus(fx[i].messageId) =
                <<[messageId |-> fx[i].messageId, processedAt |-> "now",
                   status |-> "failed", error |-> fx[i].error[1]]>>

\* C20 witness: the DLQ branch has just recorded one message as failed with
\* the error of its last dispatch, next to a success record without error.
C20_Witness ==
    /\ Handled /\ Of(fx, {"mark"}) # <<>>
    /\ Of(fx, {"mark"})[1].status = "failed"
    /\ Of(fx, {"mark"})[1].error = <<"Customer not found">>
    /\ DOMAIN processedMessages = MessageIds
    /\ \E id \in MessageIds :
          /\ processedMessages[id].status = "success"
          /\ "error" \notin DOMAIN processedMessages[id]

\* C21: after clearProcessedMessages() the ledger is empty, whatever it held
\* before: for every messageId isMessageProcessed is false and
\* getMessageStatus returns undefined, and a query made next returns just that.
C21_ClearEmpties ==
    /\ [](ret.call = "clearProcessedMessages"
            => \A id \in MessageIds :
                  ~isMessageProcessed(id) /\ getMessageStatus(id) = <<>>)
    /\ [][(ret.call = "clearProcessedMessages" /\ ret'.call = "isMessageProcessed")
             => ret'.value = <<FALSE>>]_vars
    /\ [][(ret.call = "clearProcessedMessages" /\ ret'.call = "getMessageStatus")
             => ret'.value = <<>>]_vars

\* C21 witness: the ledger was cleared and is empty.
C21_Witness ==
    /\ ret.call = "clearProcessedMessages"
    /\ DOMAIN processedMessages = {}

\* C22: JSON.parse of JSON.stringify of a Message gives back the Message:
\* the same properties with the same values in messageId, event, payload,
\* timestamp and retryCount, and no retryCount when the Message had none.
C22_RoundTrip ==
    /\ [](ret.call = "JSONstringify"
            => /\ JSONparse(ret.value[1]) = ret.args[1]
               /\ "retryCount" \in DOMAIN JSONparse(ret.value[1])
                     <=> "retryCount" \in DOMAIN ret.args[1])
    /\ [][(ret.call = "JSONstringify" /\ ret'.call = "JSONparse")
             => /\ ret'.value[1] = ret.args[1]
                /\ \A k \in {"messageId", "event", "payload", "timestamp"} :
                      ret'.value[1][k] = ret.args[1][k]]_vars

\* C22 witness: a Message of the retry branch (retryCount 2) was encoded and
\* decoded.
C22_Witness ==
    /\ ret.call = "JSONparse"
    /\ DOMAIN ret.value[1] =
          {"messageId", "event", "payload", "timestamp", "retryCount"}
    /\ ret.value[1]["retryCount"] = 2
    /\ ret.value[1]["payload"] = {"order"}

\* the CRM adapter operation an event of the enum is routed to
RoutedTo(event) ==
    IF event \in {"CREATE_ORDER", "UPDATE_ORDER"}
    THEN "createOrUpdateOrder" ELSE "createOrUpdateCustomer"

\* the delivery msg is a message that was not acknowledged as a duplicate
Dispatched == IsObject(msg) /\ fx # <<AckFx>>

\* C23: a message with an event of the enum that is dispatched results in
\* exactly one CRM adapter call, the one its event is routed to, and its
\* messageId is recorded as success only after that call was made and did
\* not fail.
C23_RoutesByEvent ==
    (Dispatched /\ JSONparse(msg)["event"] \in KnownEvents)
    => /\ CrmCalls(fx) = <<CrmFx(RoutedTo(JSONparse(msg)["event"]))>>
       /\ (\E i \in DOMAIN fx : fx[i].op = "mark" /\ fx[i].status = "success")
             => ~DispatchFailed(fx)

\* C24: a dispatched message whose event is outside the enum fails without
\* any CRM adapter call, with the error that names the event, and takes the
\* retry path: republished with retryCount + 1 and acknowledged while
\* retryCount + 1 < maxRetries, otherwise published to the DLQ with that
\* error as dlqReason, acknowledged and recorded as failed with that error.
C24_UnknownEventRetried ==
    (Handled /\ Dispatched /\ JSONparse(msg)["event"] \notin KnownEvents)
    => LET message == JSONparse(msg)
           id == message["messageId"]
           e == UnknownEventMessage(message["event"])
           n == RetryCountOr0(message) + 1
       IN  /\ CrmCalls(fx) = <<>>
           /\ Of(fx, {"failed"}) = <<FailedFx(e)>>
           /\ Settlements(fx) = <<AckFx>>
           /\ n < maxRetries
                 => /\ Len(Of(fx, {"publish"})) = 1
                    /\ Len(PublishedTo(fx, PrimaryQueue)) = 1
                    /\ JSONparse(PublishedTo(fx, PrimaryQueue)[1].body) =
                          SetField(message, "retryCount", n)
                    /\ Of(fx, {"mark"}) = <<>>
           /\ n >= maxRetries
                 => /\ Len(Of(fx, {"publish"})) = 1
                    /\ Len(PublishedTo(fx, DLQ)) = 1
                    /\ JSONparse(PublishedTo(fx, DLQ)[1].body)["dlqReason"] = e
                    /\ InDLQ(id)
                    /\ Of(fx, {"mark"}) = <<MarkFx(id, "failed", <<e>>)>>
                    /\ processedMessages[id].status = "failed"
                    /\ processedMessages[id].error = e

\* C24 witness: a message with an unknown event, published once, was
\* dispatched three times and is in the DLQ, recorded as failed.
C24_Witness ==
    /\ Handled /\ Dispatched
    /\ JSONparse(msg)["event"] = UnknownEvent
    /\ JSONparse(msg)["messageId"] = "m1"
    /\ copies["m1"] = 1 /\ attempts["m1"] = maxRetries
    /\ InDLQ("m1")
    /\ Envelope("m1")["dlqReason"] = UnknownEventMessage(UnknownEvent)
    /\ processedMessages["m1"].status = "failed"

\* the dispatch of the delivery msg failed with its retries exhausted
Exhausted ==
    /\ Handled /\ Dispatched /\ DispatchFailed(fx)
    /\ RetryCountOr0(JSONparse(msg)) + 1 >= maxRetries

\* what the catch block did on the broker and the ledger, in program order
CatchEffects(f) == Of(f, {"publish", "ack", "nack", "mark", "throw"})

\* C25: when the retries of a delivery are exhausted the callback does these
\* three things in this order and nothing else: it publishes to the DLQ the
\* decoded message with dlqReason (the message of the error just caught) and
\* dlqTimestamp added, it acknowledges the delivery, and it records the
\* messageId as failed with that same error.
C25_DLQThenAckThenLedger ==
    /\ Exhausted
         => LET message == JSONparse(msg)
                e == Of(fx, {"failed"})[1].error
                g == CatchEffects(fx)
            IN  /\ Len(g) = 3
                /\ g[1].op = "publish" /\ g[1].queue = DLQ
                /\ JSONparse(g[1].body) =
                      SetField(SetField(message, "dlqReason", e),
                               "dlqTimestamp", "now")
                /\ g[2] = AckFx
                /\ g[3] = MarkFx(message["messageId"], "failed", <<e>>)
                /\ processedMessages[message["messageId"]].error = e
    /\ \A i, j \in DOMAIN fx :
          (fx[i].op = "publish" /\ fx[i].queue = DLQ /\ fx[j].op = "ack") => i < j

\* C25 witness: a delivery with retryCount 2 failed with "Customer not found"
\* and its envelope is the last body of the DLQ.
C25_Witness ==
    /\ Exhausted
    /\ JSONparse(msg)["retryCount"] = maxRetries - 1
    /\ Of(fx, {"failed"})[1].error = "Customer not found"
    /\ dlq # <<>>
    /\ dlq[Len(dlq)] = CatchEffects(fx)[1].body
    /\ unacked = <<>>

\* the dispatch of the delivery msg failed with retries left: the callback is
\* in, or through, the retry branch
RetryStep ==
    /\ Dispatched /\ DispatchFailed(fx)
    /\ RetryCountOr0(JSONparse(msg)) + 1 < maxRetries

\* the bodies with messageId id that the broker holds for the primary queue
HeldByBroker(id) == WithId(unacked \o queue, id)

\* C26: in the retry branch the republish comes before the acknowledgment,
\* so the broker holds a copy of the message at every statement of the
\* branch, also when the consumer dies between two statements; a crash
\* leaves at worst one copy too many of a message published once.
C26_RepublishBeforeAck ==
    /\ \A i, j \in DOMAIN fx :
          (fx[i].op = "publish" /\ fx[i].queue = PrimaryQueue /\ fx[j].op = "ack")
             => i < j
    /\ RetryStep
         => LET id == JSONparse(msg)["messageId"]
            IN  /\ HeldByBroker(id) # <<>>
                /\ copies[id] = 1 => Len(HeldByBroker(id)) <= 2
                /\ (copies[id] = 1 /\ proc = "running")
                      => Len(HeldByBroker(id)) = 1

\* C26 witness: the consumer died between the republish and the ack of a
\* message published once; the broker holds the requeued delivery and the
\* republished copy.
C26_Witness ==
    /\ proc = "crashed"
    /\ RetryStep
    /\ copies[JSONparse(msg)["messageId"]] = 1
    /\ Len(PublishedTo(fx, PrimaryQueue)) = 1
    /\ Settlements(fx) = <<>>
    /\ Len(HeldByBroker(JSONparse(msg)["messageId"])) = 2
    /\ queue[1] = msg

\* s is the beginning of t
IsPrefix(s, t) == Len(s) <= Len(t) /\ SubSeq(t, 1, Len(s)) = s

\* a step of the consumer callback, not of a producer
ConsumerStep == produced' = produced /\ vars' # vars

\* C27: the callback is handed the head of the queue, the bodies that wait
\* keep their order, and a body the callback republishes goes behind every
\* body that was waiting at that moment, so it is delivered after them.
C27_OrderKept ==
    [][/\ DeliveryStep => msg' = Head(queue) /\ IsPrefix(Tail(queue), queue')
       /\ ~DeliveryStep => IsPrefix(queue, queue')
       /\ (ConsumerStep /\ PublishedTo(fx', PrimaryQueue) # <<>>)
             => /\ queue' # <<>>
                /\ queue'[Len(queue')] = PublishedTo(fx', PrimaryQueue)[1].body
                /\ SubSeq(queue', 1, Len(queue') - 1) =
                      IF DeliveryStep THEN Tail(queue) ELSE queue]_vars

\* C27 witness: the copy republished for the failed delivery msg waits at
\* the tail of the queue, behind a body of another message that was
\* already waiting.
C27_Witness ==
    /\ Handled /\ RetryStep
    /\ Len(queue) = 2
    /\ queue[2] = PublishedTo(fx, PrimaryQueue)[1].body
    /\ IsObject(queue[1])
    /\ JSONparse(queue[1])["messageId"] # JSONparse(msg)["messageId"]

\* the callback ended the delivery without a terminal outcome: it
\* republished it for a retry, acknowledged it as a duplicate, or negatively
\* acknowledged its body
NotTerminal(f) ==
    \/ PublishedTo(f, PrimaryQueue) # <<>>
    \/ f = <<AckFx>>
    \/ Of(f, {"nack"}) # <<>>

\* C28: a callback that ends in a retry republish, a duplicate ack or a nack
\* writes nothing to the ledger; a success record is written only by a
\* callback whose CRM adapter call was made and did not fail; so every
\* record is that of a message that succeeded or has its envelope in the DLQ.
C28_LedgerOnlyOnTerminal ==
    /\ NotTerminal(fx) => Of(fx, {"mark"}) = <<>>
    /\ Len(Of(fx, {"mark"})) <= 1
    /\ \A i \in DOMAIN fx :
          (fx[i].op = "mark" /\ fx[i].status = "success")
             => CrmCalls(fx) # <<>> /\ ~DispatchFailed(fx)
    /\ \A i \in DOMAIN fx :
          (fx[i].op = "mark" /\ fx[i].status = "failed")
             => PublishedTo(fx, DLQ) # <<>>
    /\ \A id \in DOMAIN processedMessages :
          \/ processedMessages[id].status = "success"
          \/ processedMessages[id].status = "failed" /\ InDLQ(id)

\* the fields a route requires in the request body
Required(route) ==
    CASE route = "POST /api/messages"  -> {"event", "payload"}
      [] route = "POST /api/customers" -> {"id", "name", "email"}
      [] route = "POST /api/orders"    -> {"id", "customerId", "amount", "items"}

\* the request fails validation
Invalid(route, body) ==
    \/ ~(Required(route) \subseteq DOMAIN body)
    \/ route = "POST /api/messages" /\ body["event"] \notin KnownEvents

\* C29: a request that fails validation is answered 400 and leaves the queue
\* as it was; any other request calls the producer once, with a message of
\* the four fields messageId, event, payload, timestamp (no retryCount) that
\* is appended to the primary queue unless the producer threw, and is
\* answered 201, 503 or 500 as the producer returned true, false or threw.
C29_ValidatingTranslator ==
    [][LET route == ret'.call
           body == ret'.args[1]
           status == ret'.value[1]
       IN  /\ status = 400 <=> Invalid(route, body)
           /\ status = 400 => queue' = queue
           /\ status # 400
                 => LET sent == ret'.args[2]
                    IN  /\ sent = "true" => status = 201
                        /\ sent = "false" => status = 503
                        /\ sent = "throw" => status = 500 /\ queue' = queue
                        /\ sent # "throw"
                              => /\ Len(queue') = Len(queue) + 1
                                 /\ IsPrefix(queue, queue')
                                 /\ LET m == JSONparse(queue'[Len(queue')])
                                    IN  /\ DOMAIN m = {"messageId", "event",
                                                       "payload", "timestamp"}
                                        /\ m["event"] \in KnownEvents
                                        /\ route = "POST /api/messages"
                                              => /\ m["event"] = body["event"]
                                                 /\ m["payload"] = body["payload"]
                                        /\ route = "POST /api/customers"
                                              => /\ m["event"] = "CREATE_CUSTOMER"
                                                 /\ m["payload"] = {"customer"}
                                        /\ route = "POST /api/orders"
                                              => /\ m["event"] = "CREATE_ORDER"
                                                 /\ m["payload"] = {"order"}]_vars

\* C29 witness: an order request was accepted and answered 503 because the
\* producer returned false; its CREATE_ORDER message is the last body of
\* the queue, behind the message of an earlier request.
C29_Witness ==
    /\ ret.call = "POST /api/orders"
    /\ ret.value = <<503>>
    /\ Len(queue) = 2
    /\ JSONparse(queue[2])["event"] = "CREATE_ORDER"
    /\ "retryCount" \notin DOMAIN JSONparse(queue[2])

RecordedSuccess(id) ==
    id \in DOMAIN processedMessages /\ processedMessages[id].status = "success"

\* C30: the callback publishes nothing, to the primary queue or to the DLQ,
\* for a messageId the ledger records as success: not in a later delivery,
\* and not in the delivery that wrote the record when the ack after the
\* write fails on a closed channel; a success record is never turned into
\* a failed one and its message never gets into the DLQ.
C30_SucceededNeverRepublished ==
    /\ [](/\ \A i, j \in DOMAIN fx :
                (fx[i].op = "mark" /\ fx[i].status = "success" /\ i < j)
                   => fx[j].op \notin {"publish", "mark"}
          /\ \A id \in MessageIds : RecordedSuccess(id) => ~InDLQ(id))
    /\ [][/\ \A i \in DOMAIN fx' :
                fx'[i].op = "publish"
                   => ~RecordedSuccess(JSONparse(fx'[i].body)["messageId"])
          /\ \A id \in MessageIds :
                RecordedSuccess(id) => processedMessages'[id] = processedMessages[id]
          /\ \A id \in MessageIds :
                (RecordedSuccess(id) /\ ConsumerStep)
                   => /\ Len(WithId(queue', id)) <= Len(WithId(queue \o unacked, id))
                      /\ WithId(dlq', id) = WithId(dlq, id)]_vars

\* C30 witness: the channel was closed during the CRM adapter call; the call
\* succeeded, the success record was written, the ack threw, and the catch
\* block published nothing.
C30_Witness ==
    /\ proc \in {"closing", "exit0"}
    /\ Handled /\ IsObject(msg)
    /\ Len(fx) = 4
    /\ fx[2] = MarkFx(JSONparse(msg)["messageId"], "success", <<>>)
    /\ fx[3] = FailedFx(ChannelClosed)
    /\ Of(fx, {"publish"}) = <<>>
    /\ RecordedSuccess(JSONparse(msg)["messageId"])

\* C31: no exception leaves processMessage for a body that JSON.parse
\* accepts, an object or not, and when the callback has returned the
\* delivery is settled, so the broker can hand the consumer the next one.
C31_ParsedBodySettled ==
    msg.json \in {"object", "null"}
    => /\ Of(fx, {"throw"}) = <<>>
       /\ Handled => Len(Settlements(fx)) = 1 /\ unacked = <<>>

\* C32: a messageId the ledger records as failed has an envelope in the DLQ,
\* and a messageId the ledger records as success has none.
C32_LedgerAgreesWithDLQ ==
    \A id \in DOMAIN processedMessages :
        /\ processedMessages[id].status = "failed" => InDLQ(id)
        /\ processedMessages[id].status = "success" => ~InDLQ(id)
        /\ processedMessages[id].status \in {"failed", "success"}

\* C32 witness: one message is recorded as failed and is in the DLQ, the
\* other is recorded as success and is not.
C32_Witness ==
    /\ DOMAIN processedMessages = {"m1", "m2"}
    /\ processedMessages["m1"].status = "failed" /\ InDLQ("m1")
    /\ processedMessages["m2"].status = "success" /\ ~InDLQ("m2")

\* C33: the DLQ never holds two envelopes with the same messageId, however
\* many copies of it were on the primary queue; once its envelope is there,
\* a further delivery with that messageId is only acknowledged.
C33_OneEnvelopePerId ==
    /\ \A id \in MessageIds : Len(WithId(dlq, id)) <= 1
    /\ (Handled /\ IsObject(msg) /\ InDLQ(JSONparse(msg)["messageId"]))
          => \/ fx = <<AckFx>>
             \/ Len(PublishedTo(fx, DLQ)) = 1

\* C33 witness: two copies of m1 were published, five dispatches failed, the
\* DLQ holds one envelope and the last copy was acknowledged as a duplicate.
C33_Witness ==
    /\ copies["m1"] = 2
    /\ attempts["m1"] = 2 * maxRetries - 1
    /\ Len(WithId(dlq, "m1")) = 1
    /\ Handled /\ msg # NoBody /\ IsObject(msg)
    /\ JSONparse(msg)["messageId"] = "m1"
    /\ fx = <<AckFx>>
    /\ queue = <<>> /\ unacked = <<>>

\* C34: delivering a body whose messageId the ledger records as failed does
\* nothing but acknowledge the delivery: no CRM adapter call, no publish, no
\* ledger change.
C34_FailedDuplicateAcked ==
    [][(/\ DeliveryStep
        /\ IsObject(Head(queue))
        /\ JSONparse(Head(queue))["messageId"] \in DOMAIN processedMessages
        /\ processedMessages[JSONparse(Head(queue))["messageId"]].status = "failed")
       => /\ fx' = <<AckFx>>
          /\ pc' = "idle"
          /\ unacked' = <<>>
          /\ queue' = Tail(queue)
          /\ dlq' = dlq
          /\ processedMessages' = processedMessages
          /\ marks' = marks
          /\ attempts' = attempts]_vars

\* C34 witness: a delivery of a messageId recorded as failed was
\* acknowledged as a duplicate.
C34_Witness ==
    /\ Handled /\ IsObject(msg)
    /\ fx = <<AckFx>>
    /\ JSONparse(msg)["messageId"] \in DOMAIN processedMessages
    /\ processedMessages[JSONparse(msg)["messageId"]].status = "failed"
    /\ InDLQ(JSONparse(msg)["messageId"])

\* C35: the amount of the order form is the sum of price * quantity over
\* the items the form holds.
C35_AmountIsSumOfItems ==
    orderForm.amount = totalAmount(orderForm.items)

====
